---- MODULE Spec2Model ----
(***************************************************************************)
(* Shipment lifecycle, change-detection hook and webhook dispatcher of the *)
(* shipment_integration backend (src/src/shipments).                       *)
(*                                                                         *)
(* Reading of the schema.  services.py addresses the owner of a shipment   *)
(* and of a webhook as `user` and filters webhooks by `event`; views.py    *)
(* and models.py call the owner `company`.  One owner field models both    *)
(* names, and a webhook row carries the fields the dispatcher queries      *)
(* (user, event, is_active).  update_shipment_status of services.py takes  *)
(* no actor, so a TrackingEvent carries none.                              *)
(*                                                                         *)
(* Specifications:                                                         *)
(*   Spec        the request handlers, one action per handler; the table   *)
(*               of subscriptions met by a request is an input (env)       *)
(*   SpecNotify  the dispatcher over a stored table of subscriptions       *)
(*   SpecApi     the handlers of Spec and the two DELETE endpoints         *)
(*   SpecRecords creation, status update and PATCH of a shipment row, with *)
(*               the status update whose event INSERT fails                *)
(*   SpecCreate  create requests with reference numbers, cancellations and *)
(*               status updates                                            *)
(*   SpecAuth    the API token of a company: regeneration, deactivation    *)
(*               and authentication (src/src/accounts)                     *)
(*   SpecConc    two requests at the same time, each a load and checks     *)
(*               followed by its writes one by one                         *)
(***************************************************************************)
EXTENDS Integers, Sequences, FiniteSets, TLC

VARIABLES
    shipments,   \* table shipments: id -> row, or NoShipment
    events,      \* table tracking_events, per shipment, in creation order
    nextId,      \* next auto-increment id of table shipments
    last,        \* the request handled last: handler, arguments, response, saves
    webhooks,    \* table webhooks, in pk order
    call,        \* the send_webhook_notification call made last (SpecNotify)
    companies,   \* table companies: company -> its API token and is_active
    auth,        \* the token authentication made last (SpecAuth)
    procs        \* the requests in flight, one per worker (SpecConc)

vars == <<shipments, events, nextId, last, webhooks, call, companies, auth, procs>>

----------------------------------------------------------------------------
(* Bounds *)

MaxShipments == 1
MaxEvents == 4
MaxWebhooks == 2

----------------------------------------------------------------------------
(* Data *)

None == "None"

Companies == {"c1", "c2"}
Carriers == {"k1", "k2", "k3"}
Admins == {"a1", "root"}

\* accounts.User.company: the company a user belongs to (None for the superuser)
UserCompany(u) ==
    CASE u = "k1" -> "c1"
      [] u = "k2" -> "c1"
      [] u = "k3" -> "c2"
      [] u = "a1" -> "c1"
      [] OTHER -> None

IsSuperuser(u) == u = "root"

\* IsCarrierOrAdmin.has_permission: a User of type carrier, admin or staff,
\* never the CompanyUser of a company token
IsCarrierOrAdmin(u) == u \in Carriers \cup Admins

STATUS_CHOICES ==
    {"created", "picked_up", "in_transit", "out_for_delivery",
     "delivered", "cancelled", "returned"}

WebhookEvents == {"shipment.created", "shipment.status_changed", "shipment.delivered"}

\* what one requests.post can come to
Outcomes == {"timeout", "connection_error", "http_500", "http_200"}

\* values of Webhook.secret: secrets.token_urlsafe(32) never returns ""
Secrets == {"s1", "s2"}

\* description values a caller of the status endpoints passes ('' when omitted)
DescriptionInputs == {""}

ShipmentIds == 1..MaxShipments

\* values of Shipment.tracking_number; 0 is the empty string of a row not yet
\* saved
TrackingNumbers == 1..(MaxShipments + 1)

NoShipment == [company |-> None, carrier |-> None, status |-> None,
               tracking_number |-> 0, reference_number |-> ""]

Exists(sh, id) == id \in ShipmentIds /\ sh[id] # NoShipment

NoLast == [op |-> "init", sid |-> 0, target |-> None, result |-> 0, saves |-> <<>>]

NoCall == [user |-> None, event |-> None, posts |-> <<>>, raised |-> FALSE]

\* the token a company has from its creation (default=generate_company_token):
\* tokens are numbered in the order they are generated
InitialToken(c) == IF c = "c1" THEN 1 ELSE 2

NoAuth == [token |-> 0, result |-> None]

\* the workers that handle requests at the same time
ProcIds == {1, 2}

NoProc == [op |-> None, user |-> None, id |-> 0, target |-> None,
           inst |-> NoShipment, old_status |-> None, at |-> 0, result |-> 0,
           saves |-> <<>>, wrote |-> 0]

----------------------------------------------------------------------------
(* Webhook dispatcher: services.py *)

\* the exception one requests.post ends with, None when it returns a response
PostException(o) ==
    CASE o = "timeout" -> "Timeout"
      [] o = "connection_error" -> "ConnectionError"
      [] OTHER -> None

\* isinstance(x, requests.exceptions.RequestException): Timeout and
\* ConnectionError are subclasses of it
IsRequestException(x) == x \in {"Timeout", "ConnectionError"}

\* variant of the loop body without try/except
PostEscapesUncaught(o) == PostException(o) # None

\* variant of the try/except with the first except clause only
PostEscapesTimeoutOnly(o) ==
    LET x == PostException(o)
    IN  x # None /\ x # "Timeout"

\* the try/except around one POST: does an exception leave the loop body?
PostEscapes(o) ==
    LET x == PostException(o)
    IN  /\ x # None
        /\ x # "Timeout"              \* except requests.exceptions.Timeout
        /\ ~ IsRequestException(x)    \* except requests.exceptions.RequestException

\* Webhook.objects.filter(user=shipment.user, event=event, is_active=True):
\* the pks of the rows loaded, in pk order
LoadWebhooks(table, user, event) ==
    SelectSeq([i \in 1..Len(table) |-> i],
              LAMBDA i : /\ table[i].user = user
                         /\ table[i].event = event
                         /\ table[i].is_active)

\* hmac.new(secret, payload, sha256).hexdigest(): a value fixed by the key and
\* the message, different for different keys or messages
generate_webhook_signature(secret, payload) == <<"hmac-sha256", secret, payload>>

\* json.dumps(payload): the body of every POST of one notify call
PayloadJson(event) == <<"json", event>>

\* variant of the headers that signs every POST with one secret
PostHeadersOneKey(secret, event, payload_json) ==
    IF secret # ""
    THEN ("X-Webhook-Event" :> event)
           @@ ("X-Webhook-Signature" :> generate_webhook_signature("s1", payload_json))
    ELSE ("X-Webhook-Event" :> event)

\* the headers dict built for one webhook: the signature is added if
\* webhook.secret is not empty
PostHeaders(secret, event, payload_json) ==
    IF secret # ""
    THEN ("X-Webhook-Event" :> event)
           @@ ("X-Webhook-Signature" :> generate_webhook_signature(secret, payload_json))
    ELSE ("X-Webhook-Event" :> event)

\* for webhook in webhooks: one POST each, from the k-th loaded row on
RECURSIVE SendEach(_, _, _, _, _)
SendEach(table, loaded, k, event, oc) ==
    IF k > Len(loaded)
    THEN [posts |-> <<>>, raised |-> FALSE]
    ELSE LET w == loaded[k]
             post == [webhook |-> w, event |-> event, outcome |-> oc[w],
                      body |-> PayloadJson(event),
                      headers |-> PostHeaders(table[w].secret, event,
                                              PayloadJson(event))]
         IN  IF PostEscapes(oc[w])
             THEN [posts |-> <<post>>, raised |-> TRUE]
             ELSE LET rest == SendEach(table, loaded, k + 1, event, oc)
                  IN  [posts |-> <<post>> \o rest.posts, raised |-> rest.raised]

\* send_webhook_notification(shipment, event) over the table of webhooks, where
\* user is shipment.user and oc[w] is what the endpoint of a loaded webhook w
\* does with a POST
SendWebhookNotification(table, user, event, oc) ==
    LET loaded == LoadWebhooks(table, user, event)
    IN  IF Len(loaded) = 0
        THEN [posts |-> <<>>, raised |-> FALSE]
        ELSE SendEach(table, loaded, 1, event, oc)

----------------------------------------------------------------------------
(* Subscriptions met by one request of Spec *)

\* env: what the endpoints of the subscriptions loaded by a notify call of the
\* request do, one entry per subscription.  A request of Spec meets no
\* subscription or one; SpecNotify has the longer lists.
Envs == {<<>>} \cup {<<o>> : o \in Outcomes}

EnvTable(env, user, event) ==
    [i \in 1..Len(env) |-> [user |-> user, event |-> event, is_active |-> TRUE,
                             secret |-> "s1"]]

----------------------------------------------------------------------------
(* Change-detection hook: signals.py, and Shipment.save *)

\* pre_save: the status of the row in the database; None for an instance
\* without pk (pk 0 here) or without a row
TrackStatusChange(sh, pk) ==
    IF pk # 0 /\ Exists(sh, pk) THEN sh[pk].status ELSE None

\* variant of the hook that announces a change only on delivery
HandleStatusChangeDeliveredOnly(created, old_status, new_status) ==
    IF created
    THEN <<"shipment.created">>
    ELSE IF old_status # None /\ old_status # new_status /\ new_status = "delivered"
         THEN <<"shipment.status_changed", "shipment.delivered">>
         ELSE <<>>

\* variant of the hook that announces the delivery before the change
HandleStatusChangeDeliveredFirst(created, old_status, new_status) ==
    IF created
    THEN <<"shipment.created">>
    ELSE IF old_status # None /\ old_status # new_status
         THEN (IF new_status = "delivered" THEN <<"shipment.delivered">> ELSE <<>>)
                \o <<"shipment.status_changed">>
         ELSE <<>>

\* variant of the hook without the comparison of old and new status
HandleStatusChangeEverySave(created, old_status, new_status) ==
    IF created
    THEN <<"shipment.created">>
    ELSE IF old_status # None
         THEN <<"shipment.status_changed">>
                \o (IF new_status = "delivered" THEN <<"shipment.delivered">> ELSE <<>>)
         ELSE <<>>

\* variant of the hook in which a creating save falls through to the change test
HandleStatusChangeNoReturn(created, old_status, new_status) ==
    (IF created THEN <<"shipment.created">> ELSE <<>>)
    \o (IF new_status # None /\ old_status # new_status
        THEN <<"shipment.status_changed">>
               \o (IF new_status = "delivered" THEN <<"shipment.delivered">> ELSE <<>>)
        ELSE <<>>)

\* post_save: the events handle_status_change notifies, in order
HandleStatusChange(created, old_status, new_status) ==
    IF created
    THEN <<"shipment.created">>
    ELSE IF old_status # None /\ old_status # new_status
         THEN <<"shipment.status_changed">>
                \o (IF new_status = "delivered" THEN <<"shipment.delivered">> ELSE <<>>)
         ELSE <<>>

\* the notify calls of one post_save, from the k-th on; a call that raises ends it
RECURSIVE NotifyAll(_, _, _, _)
NotifyAll(names, k, user, env) ==
    IF k > Len(names)
    THEN [notified |-> <<>>, posts |-> 0, raised |-> FALSE]
    ELSE LET r == SendWebhookNotification(EnvTable(env, user, names[k]), user,
                                          names[k], env)
         IN  IF r.raised
             THEN [notified |-> <<names[k]>>, posts |-> Len(r.posts), raised |-> TRUE]
             ELSE LET rest == NotifyAll(names, k + 1, user, env)
                  IN  [notified |-> <<names[k]>> \o rest.notified,
                       posts |-> Len(r.posts) + rest.posts,
                       raised |-> rest.raised]

\* unique=True on tracking_number: the INSERT or UPDATE of row id raises
\* IntegrityError when another row has the number
UniqueViolation(sh, id, tracking_number) ==
    \E j \in ShipmentIds \ {id} :
        Exists(sh, j) /\ sh[j].tracking_number = tracking_number

\* self.tracking_number = self.generate_tracking_number() when it is empty:
\* random is the number drawn
\* instance.save(): pre_save, the write of the row (of the carrier column alone
\* with update_fields=['carrier']), post_save.  ctx is the request so far:
\* sh and ev the tables, saves the saves made, raised whether it has raised.
SaveShipment(ctx, id, inst, created, fields, env) ==
    LET old == TrackStatusChange(ctx.sh, IF created THEN 0 ELSE id)
        tn  == IF inst.tracking_number = 0
               THEN ctx.random
               ELSE inst.tracking_number
        row == IF fields = "carrier"
               THEN [ctx.sh[id] EXCEPT !.carrier = inst.carrier]
               ELSE [inst EXCEPT !.tracking_number = tn]
        r   == NotifyAll(HandleStatusChange(created, old, inst.status), 1,
                         inst.company, env)
    IN  IF UniqueViolation(ctx.sh, id, row.tracking_number)
        THEN [ctx EXCEPT !.raised = TRUE]
        ELSE [ctx EXCEPT
                 !.sh[id] = row,
                 !.saves = Append(@, [sid |-> id, created |-> created, old |-> old,
                                      new |-> inst.status, notified |-> r.notified,
                                      posts |-> r.posts]),
                 !.raised = r.raised]

\* variant of the INSERT that rewrites the newest event when it has the status
CreateTrackingEventUpsert(ctx, id, status, description) ==
    IF ctx.ev[id] # <<>> /\ ctx.ev[id][Len(ctx.ev[id])].status = status
    THEN [ctx EXCEPT !.ev[id][Len(ctx.ev[id])] =
                         [status |-> status, description |-> description]]
    ELSE [ctx EXCEPT !.ev[id] = Append(@, [status |-> status,
                                           description |-> description])]

\* TrackingEvent.objects.create(shipment=..., status=..., description=...)
CreateTrackingEvent(ctx, id, status, description) ==
    IF ctx.db_error
    THEN [ctx EXCEPT !.raised = TRUE]
    ELSE [ctx EXCEPT !.ev[id] = Append(@, [status |-> status,
                                           description |-> description])]

----------------------------------------------------------------------------
(* Status engine *)

\* variant of the engine that writes nothing when the status is the one asked for
UpdateShipmentStatusDeduplicated(ctx, id, inst, new_status, description, env) ==
    IF inst.status = new_status
    THEN ctx
    ELSE CreateTrackingEvent(
             SaveShipment(ctx, id, [inst EXCEPT !.status = new_status],
                          FALSE, "all", env),
             id, new_status, <<description>>)

\* variant of the engine that logs the status the shipment had
UpdateShipmentStatusOldEvent(ctx, id, inst, new_status, description, env) ==
    LET old_status == inst.status
        saved == SaveShipment(ctx, id, [inst EXCEPT !.status = new_status],
                              FALSE, "all", env)
    IN  IF saved.raised
        THEN saved
        ELSE CreateTrackingEvent(saved, id, old_status, <<description>>)

\* services.update_shipment_status(shipment, new_status, description)
UpdateShipmentStatus(ctx, id, inst, new_status, description, env) ==
    LET old_status == inst.status
        saved == SaveShipment(ctx, id, [inst EXCEPT !.status = new_status],
                              FALSE, "all", env)
    IN  IF saved.raised
        THEN saved
        ELSE CreateTrackingEvent(saved, id, new_status,
                 IF description # ""
                 THEN <<description>>
                 ELSE <<"Status changed from", old_status, "to", new_status>>)

\* transition() rejects with InvalidTransition
InvalidTransition(status, target_status) ==
    \/ status = "cancelled"
    \/ status = "delivered" /\ target_status # "returned"

\* utils.update_shipment_status, the engine the scan view imports
UtilsUpdateShipmentStatus(ctx, id, inst, new_status, description, env) ==
    IF InvalidTransition(inst.status, new_status)
    THEN [ctx EXCEPT !.raised = TRUE]
    ELSE UpdateShipmentStatus(ctx, id, inst, new_status, description, env)

----------------------------------------------------------------------------
(* Request handlers: views.py, serializers.py *)

\* the status values the requests of the runs ask for: four of STATUS_CHOICES
\* and one value that is none of them
StatusInputs == {"in_transit", "delivered", "returned", "cancelled", "lost"}

\* the caller of the status-update endpoint in the requests of Next: the
\* handler reads request.user for the permission alone
StatusCallers == {"a1"}

\* rows of table tracking_events, of the shipments 1..n
RECURSIVE CountEvents(_, _)
CountEvents(ev, n) == IF n = 0 THEN 0 ELSE Len(ev[n]) + CountEvents(ev, n - 1)

TotalEvents(ev) == CountEvents(ev, MaxShipments)

\* the numbers in use
UsedNumbers(sh) == {sh[j].tracking_number : j \in {i \in ShipmentIds : Exists(sh, i)}}

\* generate_tracking_number draws ten random digits: the draw either equals a
\* number in use or does not, and all numbers not in use behave alike, so the
\* least of them stands for every such draw
FreshNumber(sh) ==
    CHOOSE n \in TrackingNumbers \ UsedNumbers(sh) :
        \A m \in TrackingNumbers \ UsedNumbers(sh) : n <= m

GeneratedNumbers(sh) == UsedNumbers(sh) \cup {FreshNumber(sh)}

\* a request starts: random is the number generate_tracking_number draws in a
\* request that creates a shipment (0 in the others, which never draw),
\* db_error whether the INSERT into tracking_events fails
Begin == [sh |-> shipments, ev |-> events, saves |-> <<>>, raised |-> FALSE,
          random |-> 0, db_error |-> FALSE]

\* does a save of the request call send_webhook_notification?
Notifies(ctx) == \E i \in 1..Len(ctx.saves) : ctx.saves[i].notified # <<>>

\* the subscriptions a request of Next meets, drawn only when it notifies:
\* none, one whose POST raises, one whose POST is answered
RequestEnvs == {<<>>, <<"connection_error">>, <<"http_200">>}

EnvsFor(ctx) == IF Notifies(ctx) THEN RequestEnvs ELSE {<<>>}

\* the request ends: the tables are as the handler left them.  last is the
\* last request that saved a shipment: handler, shipment, status asked for,
\* response and saves.
Respond(ctx, op, sid, target, result) ==
    /\ TotalEvents(ctx.ev) <= MaxEvents
    /\ shipments' = ctx.sh
    /\ events' = ctx.ev
    /\ last' = IF ctx.saves = <<>>
               THEN last
               ELSE [op |-> op, sid |-> sid, target |-> target, result |-> result,
                     saves |-> ctx.saves]

\* the reference numbers (customer order ids) of the requests; "" is a
\* request without one
ReferenceInputs == {"", "r1", "r2"}

\* ShipmentCreateSerializer.create, reached from ShipmentListCreateView.create
\* with the token of company c
SerializerCreate(ctx, id, c, reference_number, env) ==
    LET inst == [company |-> c, carrier |-> None, status |-> "created",
                 tracking_number |-> 0, reference_number |-> reference_number]
        saved == SaveShipment(ctx, id, inst, TRUE, "all", env)
    IN  IF saved.raised
        THEN saved
        ELSE CreateTrackingEvent(saved, id, "created",
                                 <<"Shipment created successfully.">>)

\* variant of the lookup that finds nothing
ExistingNone(sh, c, reference_number) == 0

\* Shipment.objects.filter(reference_number=..., company=...).first(), run for
\* a non-empty reference number: the newest match (Meta.ordering), 0 for None
Existing(sh, c, reference_number) ==
    LET found == {id \in ShipmentIds :
                     /\ Exists(sh, id)
                     /\ sh[id].company = c
                     /\ sh[id].reference_number = reference_number}
    IN  IF reference_number = "" \/ found = {}
        THEN 0
        ELSE CHOOSE id \in found : \A j \in found : j <= id

\* ShipmentListCreateView.create with the token of company c: id is the pk a
\* new row gets, shipment the pk of the shipment in the response
CreateResult(ctx, id, c, reference_number, env) ==
    IF Existing(ctx.sh, c, reference_number) # 0
    THEN [ctx |-> ctx, result |-> 200,
          shipment |-> Existing(ctx.sh, c, reference_number)]
    ELSE LET done == SerializerCreate(ctx, id, c, reference_number, env)
         IN  [ctx |-> done, result |-> IF done.raised THEN 500 ELSE 201,
              shipment |-> IF done.raised THEN 0 ELSE id]

ShipmentCreate(c, reference_number) ==
    /\ Existing(shipments, c, reference_number) # 0 \/ nextId <= MaxShipments
    /\ \E n \in GeneratedNumbers(shipments) :
          \E env \in EnvsFor(CreateResult([Begin EXCEPT !.random = n], nextId, c,
                                          reference_number, <<>>).ctx) :
             LET r == CreateResult([Begin EXCEPT !.random = n], nextId, c,
                                   reference_number, env)
             IN  /\ Respond(r.ctx, "create", nextId, "created", r.result)
                 /\ nextId' = IF r.ctx.saves = <<>> THEN nextId ELSE nextId + 1
    /\ UNCHANGED <<webhooks, call, companies, auth, procs>>

\* variant of the cancellation that writes no TrackingEvent
CancelResultNoEvent(ctx, id, c, env) ==
    IF ~ Exists(ctx.sh, id)
    THEN [ctx |-> ctx, result |-> 404]
    ELSE LET shipment == ctx.sh[id]
         IN  IF shipment.company # c
             THEN [ctx |-> ctx, result |-> 403]
             ELSE IF shipment.status # "created"
             THEN [ctx |-> ctx, result |-> 400]
             ELSE [ctx |-> SaveShipment(ctx, id, [shipment EXCEPT !.status = "cancelled"],
                                        FALSE, "all", env),
                   result |-> 200]

\* ShipmentCancelView.post with the token of company c
CancelResult(ctx, id, c, env) ==
    IF ~ Exists(ctx.sh, id)
    THEN [ctx |-> ctx, result |-> 404]
    ELSE LET shipment == ctx.sh[id]
         IN  IF shipment.company # c
             THEN [ctx |-> ctx, result |-> 403]
             ELSE IF shipment.status \in {"delivered", "cancelled"}
             THEN [ctx |-> ctx, result |-> 400]
             ELSE IF shipment.status \in {"picked_up", "in_transit", "out_for_delivery"}
             THEN [ctx |-> ctx, result |-> 400]
             ELSE LET saved == SaveShipment(ctx, id,
                                   [shipment EXCEPT !.status = "cancelled"],
                                   FALSE, "all", env)
                  IN  IF saved.raised
                      THEN [ctx |-> saved, result |-> 500]
                      ELSE [ctx |-> CreateTrackingEvent(saved, id, "cancelled",
                                        <<"Shipment cancelled by user.">>),
                            result |-> 200]

ShipmentCancel(c, id) ==
    /\ \E env \in EnvsFor(CancelResult(Begin, id, c, <<>>).ctx) :
          LET r == CancelResult(Begin, id, c, env)
          IN  Respond(r.ctx, "cancel", id, "cancelled", r.result)
    /\ UNCHANGED <<nextId, webhooks, call, companies, auth, procs>>

\* ShipmentStatusUpdateView.post, by any user IsCarrierOrAdmin admits
StatusUpdateResult(ctx, user, id, new_status, description, env) ==
    IF ~ IsCarrierOrAdmin(user)
    THEN [ctx |-> ctx, result |-> 403]
    ELSE IF ~ Exists(ctx.sh, id)
    THEN [ctx |-> ctx, result |-> 404]
    ELSE IF new_status \notin STATUS_CHOICES
    THEN [ctx |-> ctx, result |-> 400]
    ELSE LET shipment == ctx.sh[id]
         IN  IF shipment.status = "cancelled"
             THEN [ctx |-> ctx, result |-> 400]
             ELSE IF shipment.status = "delivered" /\ new_status # "returned"
             THEN [ctx |-> ctx, result |-> 400]
             ELSE LET done == UpdateShipmentStatus(ctx, id, shipment, new_status,
                                                   description, env)
                  IN  [ctx |-> done, result |-> IF done.raised THEN 500 ELSE 200]

ShipmentStatusUpdate(user, id, new_status, description) ==
    /\ \E env \in EnvsFor(StatusUpdateResult(Begin, user, id, new_status,
                                            description, <<>>).ctx) :
          LET r == StatusUpdateResult(Begin, user, id, new_status, description, env)
          IN  Respond(r.ctx, "status_update", id, new_status, r.result)
    /\ UNCHANGED <<nextId, webhooks, call, companies, auth, procs>>

\* variant of the endpoint that looks the shipment up by its id alone
CarrierStatusUpdateResultAnyCarrier(ctx, k, id, new_status, description, env) ==
    IF ~ Exists(ctx.sh, id)
    THEN [ctx |-> ctx, result |-> 404]
    ELSE IF new_status \notin STATUS_CHOICES
    THEN [ctx |-> ctx, result |-> 400]
    ELSE LET done == UpdateShipmentStatus(ctx, id, ctx.sh[id], new_status,
                                          description, env)
         IN  [ctx |-> done, result |-> IF done.raised THEN 500 ELSE 200]

\* CarrierShipmentStatusUpdateView.patch by carrier k
CarrierStatusUpdateResult(ctx, k, id, new_status, description, env) ==
    IF ~ (Exists(ctx.sh, id) /\ ctx.sh[id].carrier = k)
    THEN [ctx |-> ctx, result |-> 404]
    ELSE IF new_status \notin STATUS_CHOICES
    THEN [ctx |-> ctx, result |-> 400]
    ELSE LET done == UpdateShipmentStatus(ctx, id, ctx.sh[id], new_status,
                                          description, env)
         IN  [ctx |-> done, result |-> IF done.raised THEN 500 ELSE 200]

CarrierShipmentStatusUpdate(k, id, new_status, description) ==
    /\ \E env \in EnvsFor(CarrierStatusUpdateResult(Begin, k, id, new_status,
                                                   description, <<>>).ctx) :
          LET r == CarrierStatusUpdateResult(Begin, k, id, new_status, description, env)
          IN  Respond(r.ctx, "carrier_status_update", id, new_status, r.result)
    /\ UNCHANGED <<nextId, webhooks, call, companies, auth, procs>>

\* variant of the scan that takes over a shipment of another carrier
ScanResultReassigns(ctx, k, id, env) ==
    IF ~ Exists(ctx.sh, id)
    THEN [ctx |-> ctx, result |-> 404]
    ELSE LET shipment == ctx.sh[id]
         IN  IF shipment.company # UserCompany(k)
             THEN [ctx |-> ctx, result |-> 403]
             ELSE IF shipment.carrier = k
             THEN [ctx |-> ctx, result |-> 400]
             ELSE LET inst == [shipment EXCEPT !.carrier = k]
                      saved == SaveShipment(ctx, id, inst, FALSE, "carrier", env)
                      done == UtilsUpdateShipmentStatus(saved, id, inst, "picked_up",
                                  "Shipment picked up and assigned to carrier.", env)
                  IN  IF saved.raised
                      THEN [ctx |-> saved, result |-> 500]
                      ELSE [ctx |-> done,
                            result |-> IF InvalidTransition(inst.status, "picked_up")
                                       THEN 400
                                       ELSE IF done.raised THEN 500 ELSE 200]

\* CarrierStatusUpdateByScanView.post by carrier k
ScanResult(ctx, k, id, env) ==
    IF ~ Exists(ctx.sh, id)
    THEN [ctx |-> ctx, result |-> 404]
    ELSE LET shipment == ctx.sh[id]
         IN  IF shipment.company # UserCompany(k)
             THEN [ctx |-> ctx, result |-> 403]
             ELSE IF shipment.carrier = k
             THEN [ctx |-> ctx, result |-> 400]
             ELSE IF shipment.carrier # None
             THEN [ctx |-> ctx, result |-> 400]
             ELSE LET inst == [shipment EXCEPT !.carrier = k]
                      saved == SaveShipment(ctx, id, inst, FALSE, "carrier", env)
                      done == UtilsUpdateShipmentStatus(saved, id, inst, "picked_up",
                                  "Shipment picked up and assigned to carrier.", env)
                  IN  IF saved.raised
                      THEN [ctx |-> saved, result |-> 500]
                      ELSE [ctx |-> done,
                            result |-> IF InvalidTransition(inst.status, "picked_up")
                                       THEN 400
                                       ELSE IF done.raised THEN 500 ELSE 200]

CarrierStatusUpdateByScan(k, id) ==
    /\ \E env \in EnvsFor(ScanResult(Begin, k, id, <<>>).ctx) :
          LET r == ScanResult(Begin, k, id, env)
          IN  Respond(r.ctx, "scan", id, "picked_up", r.result)
    /\ UNCHANGED <<nextId, webhooks, call, companies, auth, procs>>

\* variant of the loop body whose event names the assignment, not the status
BulkAssignOneAssignedEvent(ctx, user, carrier, id, env) ==
    LET shipment == ctx.sh[id]
    IN  IF IsSuperuser(user) /\ shipment.company # UserCompany(carrier)
        THEN ctx
        ELSE IF shipment.carrier = carrier
        THEN ctx
        ELSE IF shipment.carrier # None
        THEN ctx
        ELSE LET inst == [shipment EXCEPT !.carrier = carrier]
                 saved == SaveShipment(ctx, id, inst, FALSE, "carrier", env)
             IN  IF saved.raised
                 THEN saved
                 ELSE CreateTrackingEvent(saved, id, "assigned",
                                          <<"Shipment assigned to carrier", carrier>>)

\* the body of the loop `for shipment in found_shipments` of bulk_assign_carrier
BulkAssignOne(ctx, user, carrier, id, env) ==
    LET shipment == ctx.sh[id]
    IN  IF IsSuperuser(user) /\ shipment.company # UserCompany(carrier)
        THEN ctx
        ELSE IF shipment.carrier = carrier
        THEN ctx
        ELSE IF shipment.carrier # None
        THEN ctx
        ELSE LET inst == [shipment EXCEPT !.carrier = carrier]
                 saved == SaveShipment(ctx, id, inst, FALSE, "carrier", env)
             IN  IF saved.raised
                 THEN saved
                 ELSE CreateTrackingEvent(saved, id, inst.status,
                                          <<"Shipment assigned to carrier", carrier>>)

\* found_shipments, newest first (Meta.ordering = ['-created_at']), from the
\* ids not yet handled
RECURSIVE BulkAssignLoop(_, _, _, _, _)
BulkAssignLoop(ctx, user, carrier, ids, env) ==
    IF ids = {} \/ ctx.raised
    THEN ctx
    ELSE LET id == CHOOSE x \in ids : \A y \in ids : y <= x
         IN  BulkAssignLoop(BulkAssignOne(ctx, user, carrier, id, env),
                            user, carrier, ids \ {id}, env)

\* AdminShipmentViewSet.bulk_assign_carrier by admin user, for carrier_id and
\* the list shipments
BulkAssignResult(ctx, user, carrier, shipment_ids, env) ==
    IF carrier \notin Carriers
    THEN [ctx |-> ctx, result |-> 400]
    ELSE IF ~ IsSuperuser(user) /\ UserCompany(carrier) # UserCompany(user)
    THEN [ctx |-> ctx, result |-> 403]
    ELSE LET found == {id \in shipment_ids :
                          /\ Exists(ctx.sh, id)
                          /\ (IsSuperuser(user)
                                \/ ctx.sh[id].company = UserCompany(user))}
             done == BulkAssignLoop(ctx, user, carrier, found, env)
         IN  [ctx |-> done, result |-> IF done.raised THEN 500 ELSE 200]

BulkAssignCarrier(user, carrier, shipment_ids) ==
    /\ \E env \in EnvsFor(BulkAssignResult(Begin, user, carrier, shipment_ids, <<>>).ctx) :
          LET r == BulkAssignResult(Begin, user, carrier, shipment_ids, env)
          IN  Respond(r.ctx, "bulk_assign", 0, carrier, r.result)
    /\ UNCHANGED <<nextId, webhooks, call, companies, auth, procs>>

----------------------------------------------------------------------------
(* Spec: the request handlers, one request at a time *)

Init ==
    /\ shipments = [i \in ShipmentIds |-> NoShipment]
    /\ events = [i \in ShipmentIds |-> <<>>]
    /\ nextId = 1
    /\ last = NoLast
    /\ webhooks = <<>>
    /\ call = NoCall
    /\ companies = [c \in Companies |-> [token |-> InitialToken(c), is_active |-> TRUE]]
    /\ auth = NoAuth
    /\ procs = [p \in ProcIds |-> NoProc]

Next ==
    \/ \E c \in Companies : ShipmentCreate(c, "")
    \/ \E c \in Companies, id \in ShipmentIds : ShipmentCancel(c, id)
    \/ \E u \in StatusCallers, id \in ShipmentIds, s \in StatusInputs,
          d \in DescriptionInputs : ShipmentStatusUpdate(u, id, s, d)
    \/ \E k \in Carriers, id \in ShipmentIds, s \in StatusInputs,
          d \in DescriptionInputs : CarrierShipmentStatusUpdate(k, id, s, d)
    \/ \E k \in Carriers, id \in ShipmentIds : CarrierStatusUpdateByScan(k, id)
    \/ \E u \in Admins, k \in Carriers \cup {"a1"},
          ids \in SUBSET ShipmentIds \ {{}} : BulkAssignCarrier(u, k, ids)

Spec == Init /\ [][Next]_vars

----------------------------------------------------------------------------
(* SpecNotify: the dispatcher over the stored table of webhooks *)

Range(f) == {f[i] : i \in DOMAIN f}

\* AdminWebhookViewSet.perform_create: a row for company c; e is the event the
\* row is filtered on by the dispatcher, secret the generated secret
WebhookRegister(c, e, active, secret) ==
    /\ Len(webhooks) < MaxWebhooks
    /\ webhooks' = Append(webhooks, [user |-> c, event |-> e, is_active |-> active,
                                     secret |-> secret])
    /\ call' = NoCall
    /\ UNCHANGED <<shipments, events, nextId, last, companies, auth, procs>>

\* AdminWebhookViewSet update: is_active is the writable flag of WebhookSerializer
WebhookSetActive(w, active) ==
    /\ w \in 1..Len(webhooks)
    /\ webhooks[w].is_active # active
    /\ webhooks' = [webhooks EXCEPT ![w].is_active = active]
    /\ call' = NoCall
    /\ UNCHANGED <<shipments, events, nextId, last, companies, auth, procs>>

\* one call send_webhook_notification(shipment, e) for a shipment of company c
Notify(c, e) ==
    /\ \E oc \in [Range(LoadWebhooks(webhooks, c, e)) -> Outcomes] :
          LET r == SendWebhookNotification(webhooks, c, e, oc)
          IN  call' = [user |-> c, event |-> e, posts |-> r.posts, raised |-> r.raised]
    /\ UNCHANGED <<shipments, events, nextId, last, webhooks, companies, auth, procs>>

NextNotify ==
    \/ \E c \in Companies, e \in WebhookEvents, a \in BOOLEAN, x \in Secrets :
          WebhookRegister(c, e, a, x)
    \/ \E w \in 1..MaxWebhooks, a \in BOOLEAN : WebhookSetActive(w, a)
    \/ \E c \in Companies, e \in WebhookEvents : Notify(c, e)

SpecNotify == Init /\ [][NextNotify]_vars

----------------------------------------------------------------------------
(* The record endpoints and a failing event INSERT: SpecApi, SpecRecords *)

\* IsCompanyOrAdmin.has_permission: a company token or an admin user
IsCompanyOrAdmin(u) == u \in Companies \cup Admins

\* IsAdmin.has_permission
IsAdmin(u) == u \in Admins

\* user.company of a CompanyUser or of a User
CompanyOf(u) == IF u \in Companies THEN u ELSE UserCompany(u)

\* ShipmentDetailView.get_object: 0 when the shipment is returned, else the
\* status of the error response
DetailGetObject(sh, user, id) ==
    IF ~ IsCompanyOrAdmin(user)
    THEN 403
    ELSE IF ~ Exists(sh, id)
    THEN 404
    ELSE IF IsSuperuser(user)
    THEN 0
    ELSE IF CompanyOf(user) # None /\ sh[id].company # CompanyOf(user)
    THEN 403
    ELSE 0

\* bodies of PATCH <tracking_number>/: the writable fields status and
\* tracking_number of ShipmentDetailSerializer, None and 0 for a field left out
PatchInputs ==
    {[status |-> "in_transit", tracking_number |-> 0]}
      \cup {[status |-> None, tracking_number |-> n] : n \in TrackingNumbers}

\* ShipmentDetailView PATCH: UpdateModelMixin.partial_update with
\* ShipmentDetailSerializer, whose update sets the fields and saves
DetailUpdateResult(ctx, user, id, data, env) ==
    IF DetailGetObject(ctx.sh, user, id) # 0
    THEN [ctx |-> ctx, result |-> DetailGetObject(ctx.sh, user, id)]
    ELSE IF data.status # None /\ data.status \notin STATUS_CHOICES
    THEN [ctx |-> ctx, result |-> 400]
    ELSE IF data.tracking_number # 0
            /\ UniqueViolation(ctx.sh, id, data.tracking_number)
    THEN [ctx |-> ctx, result |-> 400]
    ELSE LET shipment == ctx.sh[id]
             inst == [shipment EXCEPT
                         !.status = IF data.status = None THEN @ ELSE data.status,
                         !.tracking_number = IF data.tracking_number = 0
                                             THEN @
                                             ELSE data.tracking_number]
             saved == SaveShipment(ctx, id, inst, FALSE, "all", env)
         IN  [ctx |-> saved, result |-> IF saved.raised THEN 500 ELSE 200]

ShipmentDetailUpdate(user, id, data) ==
    /\ \E env \in EnvsFor(DetailUpdateResult(Begin, user, id, data, <<>>).ctx) :
          LET r == DetailUpdateResult(Begin, user, id, data, env)
          IN  Respond(r.ctx, "detail_update", id,
                      IF data.status = None THEN shipments[id].status ELSE data.status,
                      r.result)
    /\ UNCHANGED <<nextId, webhooks, call, companies, auth, procs>>

\* instance.delete(): the row and, by on_delete=CASCADE, its tracking events
DeleteShipment(ctx, id) ==
    [ctx EXCEPT !.sh[id] = NoShipment, !.ev[id] = <<>>]

\* ShipmentDetailView.destroy
DetailDestroyResult(ctx, user, id) ==
    IF DetailGetObject(ctx.sh, user, id) # 0
    THEN [ctx |-> ctx, result |-> DetailGetObject(ctx.sh, user, id)]
    ELSE IF ctx.sh[id].status \notin {"pending", "cancelled"}
    THEN [ctx |-> ctx, result |-> 400]
    ELSE [ctx |-> DeleteShipment(ctx, id), result |-> 204]

\* AdminShipmentViewSet DELETE admin/<id>/: DestroyModelMixin.destroy over
\* get_queryset, which the viewset does not override
AdminDestroyResult(ctx, user, id) ==
    IF ~ IsAdmin(user)
    THEN [ctx |-> ctx, result |-> 403]
    ELSE IF ~ (Exists(ctx.sh, id)
               /\ (IsSuperuser(user) \/ ctx.sh[id].company = UserCompany(user)))
    THEN [ctx |-> ctx, result |-> 404]
    ELSE [ctx |-> DeleteShipment(ctx, id), result |-> 204]

\* the response to a DELETE: last records a deletion made
RespondDestroy(r, op, id) ==
    /\ shipments' = r.ctx.sh
    /\ events' = r.ctx.ev
    /\ last' = IF r.result = 204
               THEN [op |-> op, sid |-> id, target |-> None, result |-> r.result,
                     saves |-> <<>>]
               ELSE last
    /\ UNCHANGED <<nextId, webhooks, call, companies, auth, procs>>

ShipmentDetailDestroy(user, id) ==
    RespondDestroy(DetailDestroyResult(Begin, user, id), "detail_destroy", id)

AdminShipmentDestroy(user, id) ==
    RespondDestroy(AdminDestroyResult(Begin, user, id), "admin_destroy", id)

\* ShipmentStatusUpdateView.post in which TrackingEvent.objects.create raises a
\* database error (sqlite: database is locked): each statement is committed on
\* its own, no transaction.atomic surrounds the save and the INSERT
ShipmentStatusUpdateDbError(user, id, new_status, description) ==
    /\ \E env \in EnvsFor(StatusUpdateResult(Begin, user, id, new_status,
                                            description, <<>>).ctx) :
          LET r == StatusUpdateResult([Begin EXCEPT !.db_error = TRUE], user, id,
                                      new_status, description, env)
          IN  Respond(r.ctx, "status_update", id, new_status, r.result)
    /\ UNCHANGED <<nextId, webhooks, call, companies, auth, procs>>

\* callers of the detail endpoint: the tokens of both companies and an admin
DetailCallers == {"c1", "c2", "a1"}

\* SpecApi: the handlers of Spec and the two DELETE endpoints
NextApi ==
    \/ Next
    \/ \E u \in DetailCallers, id \in ShipmentIds : ShipmentDetailDestroy(u, id)
    \/ \E u \in Admins, id \in ShipmentIds : AdminShipmentDestroy(u, id)

SpecApi == Init /\ [][NextApi]_vars

\* the statuses asked for in SpecRecords
RecordStatusInputs == {"in_transit", "delivered"}

\* SpecRecords: the writes of a shipment row by creation, status update and
\* PATCH, with the status update whose event INSERT fails
NextRecords ==
    \/ \E c \in Companies : ShipmentCreate(c, "")
    \/ \E id \in ShipmentIds, s \in RecordStatusInputs, d \in DescriptionInputs :
          ShipmentStatusUpdate("a1", id, s, d)
    \/ \E u \in DetailCallers, id \in ShipmentIds, data \in PatchInputs :
          ShipmentDetailUpdate(u, id, data)
    \/ \E id \in ShipmentIds, s \in RecordStatusInputs, d \in DescriptionInputs :
          ShipmentStatusUpdateDbError("a1", id, s, d)

SpecRecords == Init /\ [][NextRecords]_vars

\* SpecCreate: create requests of the companies with and without a reference
\* number, with cancellations and status updates between them
NextCreate ==
    \/ \E c \in Companies, ref \in ReferenceInputs : ShipmentCreate(c, ref)
    \/ \E c \in Companies, id \in ShipmentIds : ShipmentCancel(c, id)
    \/ \E u \in StatusCallers, id \in ShipmentIds, s \in StatusInputs,
          d \in DescriptionInputs : ShipmentStatusUpdate(u, id, s, d)

SpecCreate == Init /\ [][NextCreate]_vars

----------------------------------------------------------------------------
(* SpecAuth: the API token of a company, accounts/ *)

\* the tokens generated in a run, and the tokens a request presents
MaxTokens == 5

TokenInputs == 1..MaxTokens

\* generate_company_token: "comp_" and 256 random bits.  The draw is a token
\* no company has or had: tokens are numbered in the order they are
\* generated, and the newest token is always the greatest in the table.
generate_company_token(table) ==
    1 + (CHOOSE n \in {table[c].token : c \in Companies} :
            \A c \in Companies : table[c].token <= n)

\* Company.regenerate_token of company pk
regenerate_token(table, pk) ==
    [table EXCEPT ![pk].token = generate_company_token(table)]

\* variant of the lookup that does not read is_active
AuthenticateCredentialsAnyCompany(table, token) ==
    IF \A c \in Companies : table[c].token # token
    THEN "invalid_token"
    ELSE CHOOSE c \in Companies : table[c].token = token

\* CompanyTokenAuthentication.authenticate_credentials: the company that
\* request.user wraps, or the AuthenticationFailed raised
AuthenticateCredentials(table, token) ==
    IF \A c \in Companies : table[c].token # token
    THEN "invalid_token"
    ELSE LET company == CHOOSE c \in Companies : table[c].token = token
         IN  IF ~ table[company].is_active
             THEN "not_active"
             ELSE company

\* CompanyRegenerateTokenView.post by an admin user for company pk (the
\* superuser's view does the same without the company check)
CompanyRegenerateToken(user, pk) ==
    /\ IsSuperuser(user) \/ UserCompany(user) = pk
    /\ generate_company_token(companies) <= MaxTokens
    /\ companies' = regenerate_token(companies, pk)
    /\ UNCHANGED <<shipments, events, nextId, last, webhooks, call, auth, procs>>

\* SuperuserCompanyDetailView update: is_active is writable, token read-only
CompanyUpdate(pk, is_active) ==
    /\ companies[pk].is_active # is_active
    /\ companies' = [companies EXCEPT ![pk].is_active = is_active]
    /\ UNCHANGED <<shipments, events, nextId, last, webhooks, call, auth, procs>>

\* a request that presents token in X-Company-Token
CompanyAuthenticate(token) ==
    /\ auth' = [token |-> token, result |-> AuthenticateCredentials(companies, token)]
    /\ UNCHANGED <<shipments, events, nextId, last, webhooks, call, companies, procs>>

NextAuth ==
    \/ \E u \in Admins, pk \in Companies : CompanyRegenerateToken(u, pk)
    \/ \E pk \in Companies, a \in BOOLEAN : CompanyUpdate(pk, a)
    \/ \E t \in TokenInputs : CompanyAuthenticate(t)

SpecAuth == Init /\ [][NextAuth]_vars

----------------------------------------------------------------------------
(* SpecConc: two requests at the same time.  A handler runs no transaction *)
(* and takes no lock, so the reads and the writes of two requests          *)
(* interleave: a request loads the row and checks it, and then makes its   *)
(* writes one by one from the instance it holds in memory.                 *)

\* the status values the status updates of SpecConc ask for
ConcStatusInputs == {"in_transit", "delivered"}

\* the users whose requests SpecConc runs: an admin for the status update,
\* the companies for the cancellation, the carriers for the scan
ConcCallers(op) ==
    CASE op = "status_update" -> StatusCallers
      [] op = "cancel" -> Companies
      [] OTHER -> Carriers

ConcTargets(op) ==
    CASE op = "status_update" -> ConcStatusInputs
      [] op = "cancel" -> {"cancelled"}
      [] OTHER -> {"picked_up"}

\* variant of the order of writes that creates the event before the save
StepsEventFirst(op) ==
    IF op = "scan"
    THEN <<"carrier", "event", "save">>
    ELSE <<"event", "save">>

\* the writes of a handler after its checks, in the order of the code: the
\* scan saves the carrier first; then shipment.save() with the new status,
\* then TrackingEvent.objects.create
Steps(op) ==
    IF op = "scan"
    THEN <<"carrier", "save", "event">>
    ELSE <<"save", "event">>

\* the handler on the tables as they are now: it has rejected the request
\* exactly when it has saved nothing
Checked(op, user, id, target) ==
    CASE op = "status_update" -> StatusUpdateResult(Begin, user, id, target, "", <<>>)
      [] op = "cancel" -> CancelResult(Begin, id, user, <<>>)
      [] OTHER -> ScanResult(Begin, user, id, <<>>)

\* the description of the event the handler creates
EventDescription(q) ==
    CASE q.op = "status_update" ->
            <<"Status changed from", q.old_status, "to", q.target>>
      [] q.op = "cancel" -> <<"Shipment cancelled by user.">>
      [] OTHER -> <<"Shipment picked up and assigned to carrier.">>

\* the request q ends with the response result
Finished(q, result) == [q EXCEPT !.at = 0, !.result = result]

\* the request q has made the write at q.at
Advanced(q) ==
    IF q.at = Len(Steps(q.op))
    THEN Finished(q, 200)
    ELSE [q EXCEPT !.at = @ + 1]

\* the next write of request q on the tables of ctx; n numbers the status
\* writes of the run in the order they are made
StepResult(ctx, q, n, env) ==
    LET step == Steps(q.op)[q.at]
    IN  CASE step = "carrier" ->
               LET inst == [q.inst EXCEPT !.carrier = q.user]
                   saved == SaveShipment(ctx, q.id, inst, FALSE, "carrier", env)
               IN  [ctx |-> saved,
                    proc |-> [Advanced(q) EXCEPT !.inst = inst, !.saves = saved.saves]]
          [] step = "save" ->
               IF q.op = "scan" /\ InvalidTransition(q.inst.status, q.target)
               THEN [ctx |-> ctx, proc |-> Finished(q, 400)]
               ELSE LET inst == [q.inst EXCEPT !.status = q.target]
                        saved == SaveShipment(ctx, q.id, inst, FALSE, "all", env)
                    IN  IF saved.raised
                        THEN [ctx |-> saved, proc |-> Finished(q, 500)]
                        ELSE [ctx |-> saved,
                              proc |-> [Advanced(q) EXCEPT
                                           !.inst = inst,
                                           !.old_status = q.inst.status,
                                           !.saves = saved.saves,
                                           !.wrote = n]]
          [] OTHER ->
               [ctx |-> CreateTrackingEvent(ctx, q.id, q.target, EventDescription(q)),
                proc |-> Advanced(q)]

\* worker p takes a request: the handler loads the shipment and checks it
ProcStart(p, op, user, id, target) ==
    /\ procs[p].op = None
    /\ LET r == Checked(op, user, id, target)
           q == [NoProc EXCEPT !.op = op, !.user = user, !.id = id, !.target = target]
       IN  procs' = [procs EXCEPT ![p] =
                        IF r.ctx.saves = <<>>
                        THEN Finished(q, r.result)
                        ELSE [q EXCEPT !.inst = shipments[id], !.at = 1]]
    /\ UNCHANGED <<shipments, events, nextId, last, webhooks, call, companies, auth>>

\* the subscriptions the write meets, drawn only when it notifies
StepEnvs(ctx, q, n) ==
    LET saves == StepResult(ctx, q, n, <<>>).ctx.saves
    IN  IF Len(saves) > Len(q.saves) /\ saves[Len(saves)].notified # <<>>
        THEN RequestEnvs
        ELSE {<<>>}

\* the status writes made so far
Writes == Cardinality({p \in ProcIds : procs[p].wrote > 0})

\* worker p makes the next write of its request
ProcStep(p) ==
    /\ procs[p].at > 0
    /\ LET q == procs[p]
           ctx == [Begin EXCEPT !.saves = q.saves]
       IN  \E env \in StepEnvs(ctx, q, Writes + 1) :
              LET r == StepResult(ctx, q, Writes + 1, env)
              IN  /\ TotalEvents(r.ctx.ev) <= MaxEvents
                  /\ shipments' = r.ctx.sh
                  /\ events' = r.ctx.ev
                  /\ procs' = [procs EXCEPT ![p] = r.proc]
    /\ UNCHANGED <<nextId, last, webhooks, call, companies, auth>>

NextConc ==
    \/ \E c \in Companies : ShipmentCreate(c, "")
    \/ \E p \in ProcIds, op \in {"status_update", "cancel", "scan"} :
          \E user \in ConcCallers(op), id \in ShipmentIds, target \in ConcTargets(op) :
             ProcStart(p, op, user, id, target)
    \/ \E p \in ProcIds : ProcStep(p)

SpecConc == Init /\ [][NextConc]_vars

----------------------------------------------------------------------------
(* Claims *)

\* handlers that call services.update_shipment_status
TransitionOps == {"status_update", "carrier_status_update"}

\* a step in which a request saved a shipment
Effect == <<shipments, events, last>>' # <<shipments, events, last>>

LastEvent(ev, id) == ev[id][Len(ev[id])]

\* events'[id] is events[id] with one row more
OneAppended(id) ==
    /\ Len(events'[id]) = Len(events[id]) + 1
    /\ SubSeq(events'[id], 1, Len(events[id])) = events[id]

\* C1: a status-transition request on a shipment whose persisted status is
\* 'cancelled' is rejected whatever the target: the status stays 'cancelled'
\* and the request appends no TrackingEvent.
C1_CancelledIsTerminal ==
    [][\A id \in ShipmentIds :
          (Exists(shipments, id) /\ shipments[id].status = "cancelled")
          => /\ shipments'[id].status = "cancelled"
             /\ (events'[id] # events[id] => last'.op \notin TransitionOps)]_vars

\* C2: on a shipment whose persisted status is 'delivered' a transition to
\* 'returned' succeeds, and a transition to any other target is rejected and
\* leaves status and tracking history unchanged, at every entry point.
C2_DeliveredOnlyToReturned ==
    [][\A id \in ShipmentIds :
          (Exists(shipments, id) /\ shipments[id].status = "delivered")
          => /\ \A d \in DescriptionInputs, env \in Envs :
                   StatusUpdateResult(Begin, "a1", id, "returned", d, env).result = 200
             /\ shipments'[id].status \in {"delivered", "returned"}
             /\ (events'[id] # events[id] /\ last'.op \in TransitionOps
                   => shipments'[id].status = "returned")]_vars

\* C3: every successful transition call appends exactly one TrackingEvent to
\* the shipment, with the status asked for, and leaves the persisted status
\* equal to the status asked for.
C3_SuccessfulTransitionAppendsOneEvent ==
    [][(Effect /\ last'.op \in TransitionOps /\ last'.result = 200)
          => /\ shipments'[last'.sid].status = last'.target
             /\ OneAppended(last'.sid)
             /\ LastEvent(events', last'.sid).status = last'.target
             /\ \A j \in ShipmentIds \ {last'.sid} : events'[j] = events[j]]_vars

C3_Witness ==
    /\ last.op = "status_update"
    /\ last.result = 200
    /\ shipments[last.sid].status = last.target
    /\ Len(events[last.sid]) >= 2
    /\ LastEvent(events, last.sid).status = last.target

\* a cancellation by the owning company of a shipment in one of the statuses
\* succeeds, sets 'cancelled' and appends one 'cancelled' TrackingEvent
CancelSucceedsIn(statuses) ==
    \A id \in ShipmentIds :
        (Exists(shipments, id) /\ shipments[id].status \in statuses)
        => \A env \in Envs :
              LET r == CancelResult(Begin, id, shipments[id].company, env)
              IN  /\ r.result = 200
                  /\ r.ctx.sh[id].status = "cancelled"
                  /\ Len(r.ctx.ev[id]) = Len(events[id]) + 1
                  /\ SubSeq(r.ctx.ev[id], 1, Len(events[id])) = events[id]
                  /\ LastEvent(r.ctx.ev, id).status = "cancelled"

\* C4, as claimed: a cancellation request by the owning company on a shipment
\* whose status is 'created' or 'picked_up' succeeds: the status becomes
\* 'cancelled' and one TrackingEvent with status 'cancelled' is appended.
C4_CancelInCreatedOrPickedUp == CancelSucceedsIn({"created", "picked_up"})

\* C4, amended: a cancellation request by the owning company on a shipment
\* whose status is 'created' succeeds: the status becomes 'cancelled' and one
\* TrackingEvent with status 'cancelled' is appended.
C4_CancelInCreated == CancelSucceedsIn({"created"})

C4_Witness ==
    /\ last.op = "cancel"
    /\ last.result = 200
    /\ last.saves[1].old = "created"
    /\ shipments[last.sid].status = "cancelled"
    /\ LastEvent(events, last.sid).status = "cancelled"

\* C5: a shipment's status changes to 'cancelled' only from 'created' or
\* 'picked_up'; no operation moves a shipment from 'in_transit',
\* 'out_for_delivery', 'delivered' or 'returned' to 'cancelled'.
C5_CancelledOnlyBeforeTransit ==
    [][\A id \in ShipmentIds :
          (shipments'[id].status = "cancelled" /\ shipments[id].status # "cancelled")
          => shipments[id].status \in {"created", "picked_up"}]_vars

Count(seq, x) == Cardinality({i \in 1..Len(seq) : seq[i] = x})

\* C6: every update-save of an existing shipment whose just-saved status
\* differs from the previously persisted status triggers exactly one notify
\* call with event 'shipment.status_changed'.
C6_StatusChangeNotifiedOnce ==
    \A i \in 1..Len(last.saves) :
        LET s == last.saves[i]
        IN  (~ s.created /\ s.old # s.new)
            => Count(s.notified, "shipment.status_changed") = 1

C6_Witness ==
    \E i \in 1..Len(last.saves) :
        /\ ~ last.saves[i].created
        /\ last.saves[i].old = "created"
        /\ last.saves[i].new = "in_transit"
        /\ last.saves[i].notified = <<"shipment.status_changed">>

\* C7: a save that changes the status to 'delivered' makes exactly two notify
\* calls, 'shipment.status_changed' then 'shipment.delivered'; a save that
\* changes the status to another value notifies no 'shipment.delivered'.
C7_DeliveredNotifiedSecond ==
    \A i \in 1..Len(last.saves) :
        LET s == last.saves[i]
        IN  (~ s.created /\ s.old # s.new)
            => IF s.new = "delivered"
               THEN s.notified = <<"shipment.status_changed", "shipment.delivered">>
               ELSE Count(s.notified, "shipment.delivered") = 0

C7_Witness ==
    \E i \in 1..Len(last.saves) :
        /\ last.saves[i].old # "delivered"
        /\ last.saves[i].new = "delivered"
        /\ Len(last.saves[i].notified) = 2

\* C8: a save of an existing shipment that leaves the status equal to the
\* previously persisted status (a carrier assignment by scan or in bulk, for
\* one) triggers no notify call and no outbound POST.
C8_UnchangedStatusNotifiesNothing ==
    \A i \in 1..Len(last.saves) :
        LET s == last.saves[i]
        IN  (~ s.created /\ s.old = s.new) => (s.notified = <<>> /\ s.posts = 0)

C8_Witness ==
    /\ last.op \in {"scan", "bulk_assign"}
    /\ \E i \in 1..Len(last.saves) :
          /\ ~ last.saves[i].created
          /\ last.saves[i].old = last.saves[i].new
          /\ shipments[last.saves[i].sid].carrier # None

\* C9: the save that creates a shipment triggers exactly one notify call, with
\* event 'shipment.created', and none with 'shipment.status_changed' or
\* 'shipment.delivered'.
C9_CreationNotifiedOnce ==
    \A i \in 1..Len(last.saves) :
        last.saves[i].created => last.saves[i].notified = <<"shipment.created">>

C9_Witness ==
    /\ last.op = "create"
    /\ last.result = 201
    /\ last.saves[1].created
    /\ last.saves[1].new = "created"

Outcome(r, id) == <<r.result, r.ctx.sh[id].status, r.ctx.ev[id]>>

\* C11: whatever the outcome of the webhook deliveries a valid transition
\* triggers, the transition completes: the response is a success, the new
\* status is persisted and the TrackingEvent is appended, exactly as when no
\* delivery is made.
C11_DeliveryOutcomeContained ==
    \A id \in ShipmentIds, s \in StatusInputs, d \in DescriptionInputs :
        /\ LET r0 == StatusUpdateResult(Begin, "a1", id, s, d, <<>>)
           IN  r0.result = 200
               => /\ r0.ctx.sh[id].status = s
                  /\ Len(r0.ctx.ev[id]) = Len(events[id]) + 1
                  /\ LastEvent(r0.ctx.ev, id).status = s
                  /\ \A env \in Envs :
                        Outcome(StatusUpdateResult(Begin, "a1", id, s, d, env), id)
                            = Outcome(r0, id)
        /\ LET k == shipments[id].carrier
               r0 == CarrierStatusUpdateResult(Begin, k, id, s, d, <<>>)
           IN  r0.result = 200
               => \A env \in Envs :
                     Outcome(CarrierStatusUpdateResult(Begin, k, id, s, d, env), id)
                         = Outcome(r0, id)

C11_Witness ==
    /\ last.op \in TransitionOps
    /\ last.result = 200
    /\ last.saves[1].posts = 2
    /\ shipments[last.sid].status = "delivered"
    /\ LastEvent(events, last.sid).status = "delivered"

\* the rows of company user that are active
ActiveOf(table, user) ==
    {w \in 1..Len(table) : table[w].user = user /\ table[w].is_active}

\* C12: notify(shipment, event) POSTs to exactly the subscriptions that
\* belong to the shipment's owning tenant and are active: every such
\* subscription receives a POST, no other one does, and when there is none no
\* HTTP call is made.
C12_PostsToActiveOfTenant ==
    call # NoCall
    => {call.posts[i].webhook : i \in 1..Len(call.posts)}
          = ActiveOf(webhooks, call.user)

\* C13: every POST carries X-Webhook-Event equal to the event name, carries
\* X-Webhook-Signature if and only if the receiving subscription has a
\* non-empty secret, and the signature is the HMAC-SHA256 of the body sent,
\* keyed with the secret of that subscription.
C13_HeadersOfEveryPost ==
    \A i \in 1..Len(call.posts) :
        LET p == call.posts[i]
            secret == webhooks[p.webhook].secret
        IN  /\ "X-Webhook-Event" \in DOMAIN p.headers
            /\ p.headers["X-Webhook-Event"] = call.event
            /\ ("X-Webhook-Signature" \in DOMAIN p.headers) <=> (secret # "")
            /\ "X-Webhook-Signature" \in DOMAIN p.headers
                  => p.headers["X-Webhook-Signature"]
                        = generate_webhook_signature(secret, p.body)

C13_Witness ==
    /\ Len(call.posts) >= 2
    /\ webhooks[call.posts[1].webhook].secret # webhooks[call.posts[2].webhook].secret
    /\ call.posts[2].headers["X-Webhook-Signature"]
          = generate_webhook_signature(webhooks[call.posts[2].webhook].secret,
                                       call.posts[2].body)

\* a request answered not-found or forbidden that wrote nothing
RejectedUntouched(r) ==
    /\ r.result \in {403, 404}
    /\ r.ctx.sh = shipments
    /\ r.ctx.ev = events

\* C15: a transition requested on a shipment that the caller's tenant does not
\* own is answered not-found or forbidden and changes neither the status nor
\* the tracking history, at the status-update endpoint and at the cancel
\* endpoint.
C15_OtherTenantRejected ==
    \A id \in ShipmentIds :
        Exists(shipments, id)
        => /\ \A u \in Carriers \cup Admins, s \in StatusInputs \cap STATUS_CHOICES,
                 d \in DescriptionInputs, env \in Envs :
                 (~ IsSuperuser(u) /\ UserCompany(u) # shipments[id].company)
                 => RejectedUntouched(StatusUpdateResult(Begin, u, id, s, d, env))
           /\ \A c \in Companies \ {shipments[id].company}, env \in Envs :
                 RejectedUntouched(CancelResult(Begin, id, c, env))

\* handlers that apply a status transition, creation included
TransitionHandlers ==
    TransitionOps \cup {"create", "cancel", "scan"}

\* C16: every TrackingEvent of a shipment is created by exactly one status
\* transition, the initial 'created' one or a later transition call; no other
\* operation, carrier assignment included, appends a TrackingEvent.
C16_EventsOnlyFromTransitions ==
    [][\A id \in ShipmentIds :
          events'[id] # events[id]
          => /\ OneAppended(id)
             /\ last'.op \in TransitionHandlers
             /\ last'.sid = id]_vars

\* C18: two successive transition calls with the same target status, each
\* valid when made, append two separate TrackingEvents: after a successful
\* transition to a status from which that status is still a valid target, a
\* second call with the same target is accepted and appends one more event.
C18_SameTargetTwiceAppendsTwice ==
    (/\ last.op \in TransitionOps
     /\ last.result = 200
     /\ shipments[last.sid].status = last.target
     /\ last.target \notin {"cancelled", "delivered"})
    => \A d \in DescriptionInputs, env \in Envs :
          LET id == last.sid
              r == StatusUpdateResult(Begin, "a1", id, last.target, d, env)
          IN  /\ LastEvent(events, id).status = last.target
              /\ r.result = 200
              /\ Len(r.ctx.ev[id]) = Len(events[id]) + 1
              /\ SubSeq(r.ctx.ev[id], 1, Len(events[id])) = events[id]
              /\ LastEvent(r.ctx.ev, id).status = last.target
              /\ r.ctx.sh[id].status = last.target

C18_Witness ==
    /\ last.op = "status_update"
    /\ last.result = 200
    /\ last.saves[1].old = last.target
    /\ Len(events[last.sid]) >= 3
    /\ events[last.sid][Len(events[last.sid]) - 1].status = last.target
    /\ LastEvent(events, last.sid).status = last.target

\* C14: a transition is all-or-nothing: after a transition call, returned or
\* failed at any step, either the status asked for is persisted and its
\* TrackingEvent is appended, or the shipment and its history are as before.
C14_TransitionAllOrNothing ==
    [][(Effect /\ last'.op \in TransitionOps)
          => LET id == last'.sid
             IN  \/ shipments'[id].status = last'.target /\ OneAppended(id)
                 \/ shipments'[id] = shipments[id] /\ events'[id] = events[id]]_vars

\* C17: the tracking history of a shipment that exists before and after an
\* operation only grows: the entries it had keep their place and content.
C17_HistoryAppendOnly ==
    [][\A id \in ShipmentIds :
          (Exists(shipments, id) /\ Exists(shipments', id))
          => /\ Len(events'[id]) >= Len(events[id])
             /\ SubSeq(events'[id], 1, Len(events[id])) = events[id]]_vars

C17_Witness ==
    \E id \in ShipmentIds :
        /\ Exists(shipments, id)
        /\ Len(events[id]) = MaxEvents
        /\ events[id][1].status = "created"
        /\ last.op \in TransitionOps
        /\ last.saves[1].old = last.target

\* C19: the tracking number of a shipment never changes once assigned, and no
\* two shipments have the same tracking number.
C19_TrackingNumberFixedAndUnique ==
    [][/\ \A id \in ShipmentIds :
             (Exists(shipments, id) /\ Exists(shipments', id))
             => shipments'[id].tracking_number = shipments[id].tracking_number
       /\ \A i, j \in ShipmentIds :
             (i # j /\ Exists(shipments', i) /\ Exists(shipments', j))
             => shipments'[i].tracking_number # shipments'[j].tracking_number]_vars

\* C20: a shipment is deleted only when its status is 'cancelled'; no DELETE,
\* through the shipment detail endpoint or the admin shipment viewset, removes
\* a shipment in another status.
C20_DeletedOnlyWhenCancelled ==
    [][\A id \in ShipmentIds :
          (Exists(shipments, id) /\ ~ Exists(shipments', id))
          => shipments[id].status = "cancelled"]_vars

----------------------------------------------------------------------------
(* Responses of the webhook endpoints: serializers.py, AdminWebhookViewSet *)

\* Meta.fields of the three serializers of a Webhook row
WebhookSerializerFields == {"id", "url", "secret", "is_active", "created_at"}

WebhookCreateSerializerFields == {"id", "url", "is_active", "created_at"}

WebhookDetailSerializerFields == {"id", "url", "secret", "is_active", "created_at"}

WebhookActions == {"create", "list", "retrieve", "update", "partial_update"}

\* the HTTP method and the detail flag of each action of the ModelViewSet
ActionMethod(action) ==
    CASE action = "create" -> "POST"
      [] action \in {"list", "retrieve"} -> "GET"
      [] action = "update" -> "PUT"
      [] OTHER -> "PATCH"

ActionDetail(action) == action \in {"retrieve", "update", "partial_update"}

\* AdminWebhookViewSet.get_serializer_class
GetSerializerFields(action) ==
    IF action = "create" THEN WebhookCreateSerializerFields
    ELSE IF ActionMethod(action) = "GET" /\ ActionDetail(action)
         THEN WebhookDetailSerializerFields
         ELSE WebhookSerializerFields

\* serializer.data of a row: the serializer's fields that the model of a row
\* carries, with the row's values
SerializerData(fields, row) ==
    [f \in fields \cap {"secret", "is_active"} |-> row[f]]

\* the body of the response of one action on the row: create wraps the data
\* of the serializer under 'webhook', the other actions return it as it is
WebhookResponse(action, row) ==
    SerializerData(GetSerializerFields(action), row)

\* C21: the secret of a subscription is returned only in the response to the
\* request that creates it: no later list, retrieve or update response of the
\* subscription contains the secret.
C21_SecretOnlyInCreateResponse ==
    \A w \in 1..Len(webhooks) :
       \A action \in WebhookActions \ {"create"} :
          "secret" \notin DOMAIN WebhookResponse(action, webhooks[w])

\* C24: after every completed creation, transition, cancellation, scan pickup
\* and bulk carrier assignment, run one at a time, the most recent
\* TrackingEvent of each shipment has the status the shipment has.
C24_LatestEventHasStatus ==
    \A id \in ShipmentIds :
       Exists(shipments, id)
       => /\ events[id] # <<>>
          /\ LastEvent(events, id).status = shipments[id].status

C24_Witness ==
    /\ last.op = "bulk_assign"
    /\ Exists(shipments, 1)
    /\ shipments[1].carrier # None
    /\ shipments[1].status = "in_transit"
    /\ Len(events[1]) >= 3
    /\ LastEvent(events, 1).status = "in_transit"

\* C26: once a shipment has a carrier, neither the scan pickup nor the bulk
\* assignment replaces it: the scan is rejected and the bulk assignment skips
\* the shipment, and carrier, status and history of the shipment stay as
\* they are.
C26_AssignedCarrierKept ==
    \A id \in ShipmentIds :
       (Exists(shipments, id) /\ shipments[id].carrier # None)
       => /\ \A k \in Carriers : \A env \in RequestEnvs :
                LET r == ScanResult(Begin, k, id, env)
                IN  /\ r.result \in {400, 403}
                    /\ r.ctx = Begin
          /\ \A u \in Admins, k \in Carriers, env \in RequestEnvs :
                \A ids \in {{id}, ShipmentIds} :
                   LET r == BulkAssignResult(Begin, u, k, ids, env)
                   IN  /\ r.ctx.sh[id] = shipments[id]
                       /\ r.ctx.ev[id] = events[id]
                       /\ \A i \in 1..Len(r.ctx.saves) : r.ctx.saves[i].sid # id

C26_Witness ==
    /\ Exists(shipments, 1)
    /\ shipments[1].carrier = "k1"
    /\ ScanResult(Begin, "k2", 1, <<>>) = [ctx |-> Begin, result |-> 400]
    /\ BulkAssignResult(Begin, "a1", "k2", {1}, <<>>) = [ctx |-> Begin, result |-> 200]

\* C29: the carrier status endpoint changes the status only of a shipment
\* whose carrier is the requesting user: on any other shipment the request
\* is answered not-found, the shipment and its history are unchanged and no
\* notification is sent.
C29_CarrierEndpointOwnShipmentsOnly ==
    \A id \in ShipmentIds, k \in Carriers, s \in StatusInputs, env \in RequestEnvs :
       LET r == CarrierStatusUpdateResult(Begin, k, id, s, "", env)
       IN  /\ \A j \in ShipmentIds :
                 r.ctx.sh[j] # shipments[j]
                 => (j = id /\ Exists(shipments, j) /\ shipments[j].carrier = k)
           /\ ~ (Exists(shipments, id) /\ shipments[id].carrier = k)
              => (r.result = 404 /\ r.ctx = Begin)

C29_Witness ==
    /\ Exists(shipments, 1)
    /\ shipments[1].carrier = "k1"
    /\ shipments[1].status = "picked_up"
    /\ CarrierStatusUpdateResult(Begin, "k2", 1, "in_transit", "", <<"http_200">>)
          = [ctx |-> Begin, result |-> 404]
    /\ CarrierStatusUpdateResult(Begin, "k1", 1, "in_transit", "", <<"http_200">>).ctx.sh[1].status
          = "in_transit"

\* C30: a company API token authenticates a request only if it is the current
\* token of an active company: a token is accepted exactly when an active
\* company has it now (and the request then acts for that company), so the
\* token of an inactive company is rejected, and after regenerate_token the
\* previous token of the company is rejected.
C30_CurrentTokenOfActiveCompanyOnly ==
    /\ [](\A t \in TokenInputs :
             LET r == AuthenticateCredentials(companies, t)
             IN  /\ r \in Companies
                    <=> \E c \in Companies :
                           companies[c].token = t /\ companies[c].is_active
                 /\ r \in Companies => companies[r].token = t)
    /\ [][\A c \in Companies :
             companies'[c].token # companies[c].token
             => AuthenticateCredentials(companies', companies[c].token)
                   \notin Companies]_vars

C30_Witness ==
    /\ auth = [token |-> InitialToken("c1"), result |-> "invalid_token"]
    /\ companies["c1"].token # InitialToken("c1")
    /\ companies["c1"].is_active
    /\ AuthenticateCredentials(companies, companies["c1"].token) = "c1"
    /\ ~ companies["c2"].is_active
    /\ AuthenticateCredentials(companies, companies["c2"].token) = "not_active"

\* the event a status update in flight creates
OwnEvent(q) == [status |-> q.target, description |-> EventDescription(q)]

\* worker p's request ends with a success in this step
Succeeds(p) == procs[p].result = 0 /\ procs'[p].result = 200

\* C22: when two transitions on the same shipment run at the same time and
\* both succeed, each of them appends its own TrackingEvent, and the status
\* the shipment ends with is the target of the transition that wrote last.
C22_LastWriteWinsBothAppend ==
    [][/\ \A p \in ProcIds :
             (procs[p].op = "status_update" /\ Succeeds(p))
             => events'[procs[p].id] = Append(events[procs[p].id], OwnEvent(procs[p]))
       /\ \A p, q \in ProcIds :
             (/\ procs'[p].op = "status_update" /\ procs'[q].op = "status_update"
              /\ procs'[p].id = procs'[q].id
              /\ procs'[p].result = 200 /\ procs'[q].result = 200
              /\ procs'[p].wrote > procs'[q].wrote)
             => shipments'[procs'[p].id].status = procs'[p].target]_vars

C22_Witness ==
    /\ \A p \in ProcIds :
          procs[p].op = "status_update" /\ procs[p].id = 1 /\ procs[p].result = 200
    /\ procs[1].target = "in_transit" /\ procs[1].wrote = 1
    /\ procs[2].target = "delivered" /\ procs[2].wrote = 2
    /\ shipments[1].status = "delivered"
    /\ Len(events[1]) = 3
    /\ events[1][2].status = "delivered"
    /\ events[1][3].status = "in_transit"

\* C23: within one transition call the status is persisted first, the hook
\* runs and the notifications are attempted inside that save, and only then
\* the TrackingEvent is created: the event of the call never exists before
\* its status write.
C23_SaveNotifyThenEvent ==
    [][\A p \in ProcIds :
          (procs[p].op = "status_update" /\ procs'[p] # procs[p])
          => LET q == procs[p]
                 saved == procs'[p].saves
             IN  /\ events'[q.id] # events[q.id]
                    => /\ q.saves # <<>>
                       /\ q.saves[Len(q.saves)].new = q.target
                       /\ q.wrote > 0
                       /\ shipments' = shipments
                       /\ events'[q.id] = Append(events[q.id], OwnEvent(q))
                 /\ saved # q.saves
                    => /\ events' = events
                       /\ shipments'[q.id].status = q.target
                       /\ saved[Len(saved)].notified
                             = HandleStatusChange(FALSE, shipments[q.id].status, q.target)]_vars

C23_Witness ==
    /\ procs[1].op = "status_update"
    /\ procs[1].target = "delivered"
    /\ procs[1].at = 2
    /\ procs[1].saves[1].notified = <<"shipment.status_changed", "shipment.delivered">>
    /\ procs[1].saves[1].posts = 2
    /\ procs[2].op = None
    /\ shipments[procs[1].id].status = "delivered"
    /\ LastEvent(events, procs[1].id).status = "created"

\* C25: in any interleaving of a cancellation and a status update on the same
\* shipment, once 'cancelled' is persisted no later write changes the status:
\* the check and the write of the status update act as one atomic step.
C25_StatusUpdateAtomicWithCancel ==
    [][\A p \in ProcIds :
          (procs[p].op = "status_update" /\ procs'[p] # procs[p])
          => (shipments[procs[p].id].status = "cancelled"
                => shipments'[procs[p].id].status = "cancelled")]_vars

\* C27: when two carriers of the owning company scan the same unassigned
\* shipment at the same time, at most one of the two requests reports
\* success, and the shipment ends assigned to the carrier whose request
\* succeeded.
C27_OneScanSucceeds ==
    \A p, q \in ProcIds :
       (/\ p # q
        /\ procs[p].op = "scan" /\ procs[q].op = "scan"
        /\ procs[p].id = procs[q].id
        /\ procs[p].result = 200
        /\ procs[q].result # 0)
       => /\ procs[q].result # 200
          /\ shipments[procs[p].id].carrier = procs[p].user

====
